---- MODULE Spec2Model ----
(***************************************************************************)
(* Model of minimp4.rs: the Mp4Muxer session of packages/minimp4/src/lib.rs *)
(* (sink, engine handle, track writer, string buffer, write callback) and, *)
(* behind it, the muxing engine and the frame writer that lib.rs calls.     *)
(* The engine (MP4E_*, mp4_h26x_write_init) and writer.rs (write_mp4,       *)
(* write_mp4_frame_with_duration) lie outside lib.rs; their operators below *)
(* follow spec.md sections 4.1-4.4 and say so.                              *)
(***************************************************************************)
EXTENDS Integers, Sequences, FiniteSets, TLC

\* ---------------------------------------------------------------- bounds
MaxFrames == 2      \* samples a behaviour appends
MaxSize   == 2      \* payload cells of one access unit
MaxInit   == 2      \* init_video calls per behaviour
MaxStr    == 2      \* write_comment calls per behaviour

\* ------------------------------------------------------ program constants
TimeScale  == 90000
DefaultFps == 60
I32Max     == 2147483647

\* ------------------------------------------------------------ input sets
Addrs    == {1, 2}                          \* places the session value can live
NoToken  == 0
\* a u32 is hi * 2^31 + lo with hi in {0, 1} and lo in 0 .. i32::MAX
U32(n)   == [hi |-> 0, lo |-> n]
GoodFps  == {U32(59999)}
BadFps   == {U32(0), U32(90001), [hi |-> 1, lo |-> 0]}
GoodDur  == {3000}
BadDur   == {0}
\* the k-th comment of a session is the text <<"c", k>>; Nul stands for a text with an
\* interior NUL byte
Nul      == <<"nul", 0>>
Texts(k) == {<<"c", k>>, Nul}
NoText   == <<"", 0>>
TrackName == <<"t", 0>>
\* an access unit of one cell is a bare slice; a longer one leads with its parameter set
GoodData == [kind : {"au"}, size : {1}, ps : {0}]
               \cup [kind : {"au"}, size : 2 .. MaxSize, ps : {1}]
BadData  == [kind : {"nostart", "badnal"}, size : {MaxSize}, ps : {0}]
DataSet  == GoodData \cup BadData
OneData  == [kind |-> "au", size |-> 1, ps |-> 0]
\* the argument pairs tried: every good pair, and each bad argument beside a good one
FpsArgs  == (DataSet \X GoodFps) \cup ({OneData} \X BadFps)
DurArgs  == (DataSet \X GoodDur) \cup ({OneData} \X BadDur)

MaxOff   == 1 + ((MaxFrames + 1) * MaxSize) + 2
Offs     == 0 .. (MaxOff - 1)
Zero     == <<"z", 0>>
Hdr      == <<"hdr", 0>>
Patch    == <<"patch", 0>>
Moov     == <<"moov", 0>>
Pay(i)   == <<"pay", i>>

VARIABLES
    writer,        \* Mp4Muxer.writer: the sink [bytes, len, pos]
    muxer,         \* Mp4Muxer.muxer: "null" | "open" | "closed" (dangling after MP4E_close)
    writerInit,    \* number of mp4_h26x_write_init calls on muxer_writer (0: uninitialised malloc memory)
    str_buffer,    \* Mp4Muxer.str_buffer
    selfAddr,      \* address the session value currently lives at
    token,         \* the token registered with MP4E_open
    eng,           \* engine state behind the handle
    proc,          \* "running" | "aborted" (panic in the callback, crash) | "undefined"
                   \* (the call returned after undefined behaviour; nothing is known from here on)
    result,        \* what the last call returned
    cb,            \* the sink callbacks the last call caused, in order
    last           \* the last call: its arguments, and the handle and writer it found

vars == <<writer, muxer, writerInit, str_buffer, selfAddr, token, eng, proc,
          result, cb, last>>

\* ------------------------------------------------------------------ sink
Max(a, b) == IF a >= b THEN a ELSE b

SeqSum(s, f(_)) ==
    LET RECURSIVE go(_)
        go(i) == IF i = 0 THEN 0 ELSE f(s[i]) + go(i - 1)
    IN go(Len(s))

\* Cursor<Vec<u8>> / File: write k cells of buf at the cursor
SinkPut(s, at, buf, k) ==
    [bytes |-> [i \in Offs |-> IF i >= at /\ i < at + k THEN buf[(i - at) + 1] ELSE s.bytes[i]],
     len   |-> IF k > 0 THEN Max(s.len, at + k) ELSE s.len,
     pos   |-> at + k]

\* a write_data that forgets the seek and writes at the cursor
write_data_noseek(s, offset, buf, k) == SinkPut(s, s.pos, buf, k)

\* Mp4Muxer::write_data: seek(Start(offset)) then one write(buf) accepting k cells
write_data(s, offset, buf, k) == SinkPut(s, offset, buf, k)

\* a callback status with the comparison inverted
write_status_inverted(k, size) == IF k = size THEN 1 ELSE 0

\* Mp4Muxer::write: (write_data(offset, buf) != size) as i32
write_status(k, size) == IF k # size THEN 1 ELSE 0

\* what the sink may do with one write of n cells: the seek fails, or k cells are accepted
Outcomes(n) == [seek : {FALSE}, k : 0 .. n] \cup [seek : {TRUE}, k : {0}]

\* what undefined behaviour may do: abort the process, or carry on and hand back a status
UBOut == [crash : BOOLEAN, st : {0, 1}]

\* Mp4Muxer::write, the extern "C" callback: the seek's unwrap panics (the process aborts),
\* otherwise the status is (write_data(offset, buf) != size) as i32
write(w, offset, buf, o) ==
    IF o.seek
    THEN [w |-> w, st |-> "panic", status |-> 1]
    ELSE [w |-> write_data(w, offset, buf, o.k), st |-> "ret",
          status |-> write_status(o.k, Len(buf))]

\* the engine calls the registered callback with the registered token; a token that no
\* longer is the session's address is a dangling pointer
CallSink(w, offset, buf, o, stale, u) ==
    LET r == IF stale
             THEN [w |-> w, st |-> IF u.crash THEN "crash" ELSE "ret", status |-> u.st]
             ELSE write(w, offset, buf, o)
    IN [w |-> r.w, st |-> r.st, status |-> r.status,
        rec |-> [off |-> offset, buf |-> buf, k |-> o.k, seek |-> o.seek, stale |-> stale,
                 st |-> r.st, status |-> r.status, before |-> w, after |-> r.w]]

\* ------------------------------------------------- result kinds of lib.rs
\* Minimp4Result<()>: Ok or one of the four Minimp4Error kinds; the engine's error kinds
\* reach the caller as one of these
ToMinimp4Result(kind) ==
    CASE kind = "Ok"               -> "Ok"
      [] kind = "SinkWriteError"   -> "FileWriteError"
      [] kind = "NoMemory"         -> "NoMemory"
      [] kind = "OnlyOneDsi"       -> "OnlyOneDsiAllowed"
      [] OTHER                     -> "BadArguments"

\* fps.try_into(): u32 -> i32, an Err above i32::MAX
fps_try_into(fps) == [ok |-> fps.hi = 0, v |-> fps.lo]

\* a write_video_with_fps that hands the default rate to the writer
fps_arg_default(fps) == DefaultFps

\* the rate write_video_with_fps hands to write_mp4
fps_arg(fps) == fps

\* ------------------------------------------------------ engine (spec.md)
\* a track: its sample table, running timestamp, duration remainder and cached parameter
\* sets; rates and explicit note how the caller timed its samples (the rates given to
\* write_video / write_video_with_fps, whether write_frame_with_duration was used)
NewTrack == [samples |-> <<>>, ts |-> 0, acc |-> 0, ps |-> {}, rates |-> {}, explicit |-> FALSE]

NewEngine == [tracks |-> <<>>, write_pos |-> 0, comments |-> <<>>, failed |-> FALSE,
              final |-> <<>>]

SumDurations(t) == SeqSum(t.samples, LAMBDA e : e.duration)
SumSizes(t)     == SeqSum(t.samples, LAMBDA e : e.size)

\* spec.md 4.1: no start code -> MalformedStream, NAL type outside the codec -> UnsupportedCodec
Parse(data) ==
    CASE data.kind = "nostart" -> "MalformedStream"
      [] data.kind = "badnal"  -> "UnsupportedCodec"
      [] OTHER                 -> "Ok"

\* spec.md 4.2: time_scale / frame_rate truncated, the remainder carried to later frames;
\* a zero duration is invalid
assign_duration(acc, fps) ==
    IF fps = 0 THEN [ok |-> FALSE, d |-> 0, acc |-> acc]
    ELSE LET a == acc + TimeScale
         IN [ok |-> (a \div fps) > 0, d |-> a \div fps, acc |-> a % fps]

\* spec.md 4.2: an explicit duration is used verbatim, the accumulator bypassed
explicit_duration(acc, d) == [ok |-> d > 0, d |-> d, acc |-> acc]

\* the outcome of an engine operation: engine, sink, callbacks, how it ended, what it returned
Out(e, w, log, st, kind) == [e |-> e, w |-> w, cb |-> log, st |-> st, kind |-> kind]

\* spec.md 4.3/4.4: MP4E_open records the callback and writes the media-data header with a
\* placeholder size at offset 0
MP4E_open(e, w, o) ==
    LET c == CallSink(w, 0, <<Hdr>>, o, FALSE, [crash |-> FALSE, st |-> 0])
    IN IF c.st # "ret" THEN Out(e, c.w, <<c.rec>>, c.st, "none")
       ELSE IF c.status # 0
            THEN Out([e EXCEPT !.failed = TRUE], c.w, <<c.rec>>, "ret", "SinkWriteError")
            ELSE Out([e EXCEPT !.write_pos = 1], c.w, <<c.rec>>, "ret", "Ok")

\* spec.md 3: a track is created at init_* call time
mp4_h26x_write_init(e) == [e EXCEPT !.tracks = Append(@, NewTrack)]

\* spec.md 4.3: write the bytes at the output cursor, then append the entry and advance
append_sample(e, w, data, dur, id, o, stale, u) ==
    LET n  == Len(e.tracks)
        t  == e.tracks[n]
        c  == CallSink(w, e.write_pos, [i \in 1 .. data.size |-> Pay(id)], o, stale, u)
        t2 == [t EXCEPT !.samples = Append(@, [offset |-> e.write_pos, size |-> data.size,
                                               duration |-> dur.d, id |-> id]),
                        !.ts = @ + dur.d,
                        !.acc = dur.acc,
                        !.ps = IF data.ps = 0 THEN @ ELSE @ \cup {data.ps}]
    IN IF c.st # "ret" THEN Out(e, c.w, <<c.rec>>, c.st, "none")
       ELSE IF c.status # 0
            THEN Out([e EXCEPT !.failed = TRUE], c.w, <<c.rec>>, "ret", "SinkWriteError")
            ELSE Out([e EXCEPT !.tracks[n] = t2, !.write_pos = @ + data.size],
                     c.w, <<c.rec>>, "ret", "Ok")

\* spec.md 4.1-4.3, 7: parse, then assign the duration, then append; parse- and
\* duration-level errors change nothing; a failed session stays failed
submit(e, w, data, dur, id, o, stale, u) ==
    IF e.failed THEN Out(e, w, <<>>, "ret", "SinkWriteError")
    ELSE IF Parse(data) # "Ok" THEN Out(e, w, <<>>, "ret", Parse(data))
    ELSE IF ~dur.ok THEN Out(e, w, <<>>, "ret", "InvalidDuration")
    ELSE append_sample(e, w, data, dur, id, o, stale, u)

\* writer.rs write_mp4: one access unit at a constant frame rate
write_mp4(e, w, fps, data, id, o, stale, u) ==
    submit(e, w, data, assign_duration(e.tracks[Len(e.tracks)].acc, fps), id, o, stale, u)

\* writer.rs write_mp4_frame_with_duration: one access unit with an explicit duration
write_mp4_frame_with_duration(e, w, d, data, id, o, stale, u) ==
    submit(e, w, data, explicit_duration(e.tracks[Len(e.tracks)].acc, d), id, o, stale, u)

\* spec.md 6: repeated comments append
MP4E_set_text_comment(e, text) == [e EXCEPT !.comments = Append(@, text)]

\* spec.md 4.4: patch the header's size at its recorded offset, then write the sample
\* tables at the output cursor; the patch leaves the output cursor alone
MP4E_close(e, w, o1, o2, stale, u) ==
    IF e.failed THEN Out(e, w, <<>>, "ret", "SinkWriteError")
    ELSE
    LET c1 == CallSink(w, 0, <<Patch>>, o1, stale, u)
        c2 == CallSink(c1.w, e.write_pos, <<Moov>>, o2, stale, u)
        fin == [tracks |-> e.tracks, comments |-> e.comments, mdat_end |-> e.write_pos]
    IN IF c1.st # "ret" THEN Out(e, c1.w, <<c1.rec>>, c1.st, "none")
       ELSE IF c1.status # 0
            THEN Out([e EXCEPT !.failed = TRUE], c1.w, <<c1.rec>>, "ret", "SinkWriteError")
       ELSE IF c2.st # "ret" THEN Out(e, c2.w, <<c1.rec, c2.rec>>, c2.st, "none")
       ELSE IF c2.status # 0
            THEN Out([e EXCEPT !.failed = TRUE], c2.w, <<c1.rec, c2.rec>>, "ret", "SinkWriteError")
       ELSE Out([e EXCEPT !.write_pos = @ + 1, !.final = Append(@, fin)],
                c2.w, <<c1.rec, c2.rec>>, "ret", "Ok")

\* ------------------------------------------------------------- the session
NoData == [kind |-> "none", size |-> 0, ps |-> 0]

Call(op, data, fps, dur, text) ==
    last' = [op |-> op, data |-> data, fps |-> fps, dur |-> dur, text |-> text,
             muxer |-> muxer, writerInit |-> writerInit]

\* samples appended so far, over all tracks
Appended(e) == SeqSum(e.tracks, LAMBDA t : Len(t.samples))

\* the choices a call leaves to the sink and to undefined behaviour, when it has any
Sink(writes, n) == IF writes THEN Outcomes(n) ELSE {[seek |-> FALSE, k |-> n]}

UB(undefined) == IF undefined THEN UBOut ELSE {[crash |-> FALSE, st |-> 0]}

\* the call gets as far as a sink write
Writes(data, fps, dur, op) ==
    /\ writerInit > 0 /\ ~eng.failed /\ token = selfAddr
    /\ data.kind = "au"
    /\ IF op = "write_frame_with_duration" THEN dur > 0
       ELSE fps.hi = 0 /\ fps.lo > 0 /\ fps.lo <= TimeScale

Finalizes == muxer # "null" /\ ~eng.failed /\ token = selfAddr

\* the call does not touch the engine or the sink
Untouched(res, p) ==
    /\ eng' = eng /\ writer' = writer /\ cb' = <<>>
    /\ proc' = p /\ result' = res

\* the call ran the engine operation whose outcome is r; ub: on a dangling handle
Ran(r, res, ub) ==
    /\ eng' = r.e /\ writer' = r.w /\ cb' = r.cb
    /\ proc' = IF r.st # "ret" THEN "aborted"
               ELSE IF ub \/ (\E i \in 1 .. Len(r.cb) : r.cb[i].stale) THEN "undefined"
               ELSE "running"
    /\ result' = IF r.st = "ret" THEN res ELSE "abort"

\* undefined behaviour before the engine is reached: abort, or return something
Undefined(u, res) ==
    IF u.crash THEN Untouched("abort", "aborted") ELSE Untouched(res, "undefined")

\* Mp4Muxer::new: null engine handle, malloc'ed (uninitialised) track writer, empty strings
Init ==
    /\ writer = [bytes |-> [i \in Offs |-> Zero], len |-> 0, pos |-> 0]
    /\ muxer = "null"
    /\ writerInit = 0
    /\ str_buffer = <<>>
    /\ selfAddr = 1
    /\ token = NoToken
    /\ eng = NewEngine
    /\ proc = "running"
    /\ result = "none"
    /\ cb = <<>>
    /\ last = [op |-> "new", data |-> NoData, fps |-> U32(0), dur |-> 0, text |-> NoText,
               muxer |-> "null", writerInit |-> 0]

\* Mp4Muxer::init_video
init_video ==
    /\ proc = "running" /\ writerInit < MaxInit
    /\ Call("init_video", NoData, U32(0), 0, TrackName)
    /\ str_buffer' = Append(str_buffer, TrackName)
    /\ UNCHANGED selfAddr
    /\ \E o \in Sink(muxer = "null", 1), u \in UB(muxer = "closed") :
         CASE muxer = "null" ->
                LET r == MP4E_open(eng, writer, o)
                IN IF r.st = "ret"
                   THEN /\ Ran([r EXCEPT !.e = mp4_h26x_write_init(r.e)], "unit", FALSE)
                        /\ muxer' = "open" /\ token' = selfAddr
                        /\ writerInit' = writerInit + 1
                   ELSE /\ Ran(r, "unit", FALSE)
                        /\ UNCHANGED <<muxer, token, writerInit>>
           [] muxer = "open" ->
                /\ Ran(Out(mp4_h26x_write_init(eng), writer, <<>>, "ret", "Ok"), "unit", FALSE)
                /\ writerInit' = writerInit + 1
                /\ UNCHANGED <<muxer, token>>
           [] muxer = "closed" ->
                \* the handle is dangling: mp4_h26x_write_init on a destroyed engine
                /\ IF u.crash
                   THEN /\ Untouched("abort", "aborted") /\ UNCHANGED writerInit
                   ELSE /\ Ran(Out(mp4_h26x_write_init(eng), writer, <<>>, "ret", "Ok"),
                               "unit", TRUE)
                        /\ writerInit' = writerInit + 1
                /\ UNCHANGED <<muxer, token>>

\* the body shared by write_video_with_fps and write_frame_with_duration:
\* muxer_writer.as_mut().unwrap(), then the writer.rs function
FrameCall(op, data, fps, dur) ==
    /\ Call(op, data, fps, dur, NoText)
    /\ UNCHANGED <<muxer, writerInit, str_buffer, selfAddr, token>>
    /\ \E o \in Sink(Writes(data, fps, dur, op), data.size),
          u \in UB(writerInit = 0 \/ muxer = "closed" \/ token # selfAddr) :
         LET stale == token # selfAddr
             id    == Appended(eng) + 1
             byFps == op # "write_frame_with_duration"
             n     == Len(eng.tracks)
             r0    == IF byFps
                      THEN write_mp4(eng, writer, fps_arg(fps_try_into(fps).v), data, id,
                                     o, stale, u)
                      ELSE write_mp4_frame_with_duration(eng, writer, dur, data, id,
                                                         o, stale, u)
             r     == IF r0.kind # "Ok" THEN r0
                      ELSE IF byFps THEN [r0 EXCEPT !.e.tracks[n].rates = @ \cup {fps.lo}]
                      ELSE [r0 EXCEPT !.e.tracks[n].explicit = TRUE]
         IN IF byFps /\ ~fps_try_into(fps).ok
            THEN Untouched("panic", "running")             \* unwrap of the TryFromIntError
            ELSE IF writerInit = 0
            THEN \* the track writer is uninitialised malloc memory
                 Undefined(u, IF u.st = 0 THEN "Ok" ELSE "BadArguments")
            ELSE IF muxer = "closed" /\ u.crash
            THEN Untouched("abort", "aborted")             \* use of the destroyed engine
            ELSE Ran(r, ToMinimp4Result(r.kind), muxer = "closed")

\* Mp4Muxer::write_video: write_video_with_fps(data, 60)
write_video ==
    /\ proc = "running" /\ Appended(eng) < MaxFrames
    /\ \E data \in DataSet : FrameCall("write_video", data, U32(DefaultFps), 0)

\* Mp4Muxer::write_video_with_fps
write_video_with_fps ==
    /\ proc = "running" /\ Appended(eng) < MaxFrames
    /\ \E a \in FpsArgs : FrameCall("write_video_with_fps", a[1], a[2], 0)

\* Mp4Muxer::write_frame_with_duration
write_frame_with_duration ==
    /\ proc = "running" /\ Appended(eng) < MaxFrames
    /\ \E a \in DurArgs : FrameCall("write_frame_with_duration", a[1], U32(0), a[2])

\* Mp4Muxer::write_comment
write_comment ==
    /\ proc = "running" /\ Len(str_buffer) - writerInit < MaxStr
    /\ UNCHANGED <<muxer, writerInit, selfAddr, token>>
    /\ \E text \in Texts((Len(str_buffer) - writerInit) + 1), u \in UB(muxer # "open") :
         /\ Call("write_comment", NoData, U32(0), 0, text)
         /\ IF text = Nul
            THEN /\ Untouched("panic", "running")          \* CString::new(..).unwrap()
                 /\ UNCHANGED str_buffer
            ELSE /\ str_buffer' = Append(str_buffer, text)
                 /\ CASE muxer = "null" ->
                           \* MP4E_set_text_comment on a null handle: no engine to keep it
                           Untouched(IF u.crash THEN "abort" ELSE "unit",
                                     IF u.crash THEN "aborted" ELSE "running")
                      [] muxer = "open" ->
                           Ran(Out(MP4E_set_text_comment(eng, text), writer, <<>>, "ret", "Ok"),
                               "unit", FALSE)
                      [] muxer = "closed" ->
                           IF u.crash THEN Untouched("abort", "aborted")
                           ELSE Ran(Out(MP4E_set_text_comment(eng, text), writer, <<>>,
                                        "ret", "Ok"), "unit", TRUE)

\* Mp4Muxer::close: MP4E_close(self.muxer); &self.writer
close ==
    /\ proc = "running"
    /\ Call("close", NoData, U32(0), 0, NoText)
    /\ UNCHANGED <<writerInit, str_buffer, selfAddr, token>>
    /\ \E o1 \in Sink(Finalizes, 1), o2 \in Sink(Finalizes, 1),
          u \in UB(muxer # "open" \/ token # selfAddr) :
         LET r == MP4E_close(eng, writer, o1, o2, token # selfAddr, u)
         IN CASE muxer = "null" ->
                   \* MP4E_close on a null handle
                   /\ Untouched(IF u.crash THEN "abort" ELSE "sink",
                                IF u.crash THEN "aborted" ELSE "running")
                   /\ UNCHANGED muxer
              [] muxer = "open" ->
                   /\ Ran(r, "sink", FALSE)
                   /\ muxer' = IF r.st = "ret" THEN "closed" ELSE muxer
              [] muxer = "closed" ->
                   \* MP4E_close on the destroyed engine
                   /\ IF u.crash THEN Untouched("abort", "aborted") ELSE Ran(r, "sink", TRUE)
                   /\ UNCHANGED muxer

\* the caller moves the session value (a Rust move: return, Box::new, Vec::push, ...);
\* before init_video no address has been handed out and a move changes nothing
Move ==
    /\ proc = "running" /\ muxer # "null"
    /\ \E a \in Addrs \ {selfAddr} : selfAddr' = a
    /\ Call("move", NoData, U32(0), 0, NoText)
    /\ Untouched("unit", "running")
    /\ UNCHANGED <<muxer, writerInit, str_buffer, token>>

Next ==
    \/ init_video
    \/ write_video
    \/ write_video_with_fps
    \/ write_frame_with_duration
    \/ write_comment
    \/ close
    \/ Move

Spec == Init /\ [][Next]_vars

\* the video-only session: init_video, frame submissions, close
VideoNext ==
    \/ init_video
    \/ write_video
    \/ write_video_with_fps
    \/ write_frame_with_duration
    \/ close

VideoSpec == Init /\ [][VideoNext]_vars

\* ------------------------------------------------------------------ claims
FrameOps == {"write_video", "write_video_with_fps", "write_frame_with_duration"}
WriteOps == FrameOps \cup {"write_comment"}

\* the last call was a frame submission whose computed duration is zero
ZeroDuration ==
    \/ last.op = "write_frame_with_duration" /\ last.dur = 0
    \/ /\ last.op \in {"write_video", "write_video_with_fps"}
       /\ (last.fps.hi = 1 \/ last.fps.lo = 0 \/ last.fps.lo > TimeScale)

\* the cells of the sink that sample e claims
Cells(e) == e.offset .. (e.offset + e.size - 1)

\* C1: once close() has returned, every write method called on the session is rejected
\* with SessionClosed and causes no write to the sink.
C1_WriteAfterCloseRejected ==
    (last.op \in WriteOps /\ last.muxer = "closed")
        => (result = "SessionClosed" /\ cb = <<>>)

\* C2: a frame submitted with no preceding init_video never reaches the engine with an
\* uninitialised track writer, and a second init_video neither creates a second video
\* track nor initialises the track writer again.
C2_InitVideoExactlyOnce ==
    /\ (last.op \in FrameOps /\ last.writerInit = 0 /\ last.fps.hi = 0) => proc = "running"
    /\ writerInit <= 1
    /\ Len(eng.tracks) <= 1

\* C3: for every write the engine issues, the callback reports failure exactly when the
\* sink did not accept exactly n cells at the offset (short write, write error or seek
\* failure), and the frame submission that caused it returns a write error.
C3_CallbackReportsSinkFailure ==
    \A i \in 1 .. Len(cb) :
        ~cb[i].stale =>
            /\ cb[i].st = "ret"
            /\ cb[i].status = 1 <=> (cb[i].seek \/ cb[i].k # Len(cb[i].buf))
            /\ (cb[i].status = 1 /\ last.op \in FrameOps) => result = "FileWriteError"

\* C5: every appended sample has a positive duration, and a submission whose duration is
\* zero (explicit 0, fps 0, fps above the time scale) on an open session fails with
\* InvalidDuration and causes no write.
C5_ZeroDurationInvalid ==
    /\ \A n \in 1 .. Len(eng.tracks) : \A j \in 1 .. Len(eng.tracks[n].samples) :
           eng.tracks[n].samples[j].duration > 0
    /\ (ZeroDuration /\ last.muxer = "open" /\ last.data.kind = "au" /\ ~eng.failed)
           => (result = "InvalidDuration" /\ cb = <<>>)

\* C6: a frame submission on an open session that hits a parse-level or duration-level
\* error (no start code, unsupported NAL type, zero duration) returns that error to the
\* caller and leaves the engine state and the sink as they were.
C6_ParseErrorReturnedStateKept ==
    [][(/\ last'.op \in FrameOps /\ last'.muxer = "open" /\ ~eng.failed
        /\ (last'.data.kind \in {"nostart", "badnal"} \/ ZeroDuration'))
       => (/\ result' \in {"MalformedStream", "UnsupportedCodec", "InvalidDuration"}
           /\ result' = "MalformedStream" <=> (last'.data.kind = "nostart" /\ last'.fps.hi = 0)
           /\ eng' = eng /\ writer' = writer)]_vars

\* the comments handed to write_comment so far, in call order
CommentsGiven == SelectSeq(str_buffer, LAMBDA t : t # TrackName)

\* C8: after k write_comment calls with texts t1..tk followed by close(), the finalized
\* container holds the k comments t1..tk in call order.
C8_CommentsAllKept ==
    (proc = "running" /\ last.op = "close" /\ Len(eng.final) > 0)
        => eng.final[Len(eng.final)].comments = CommentsGiven

\* C10: at every callback the registered token designates the session's own sink, also
\* when the session value was moved after init_video.
C10_TokenDesignatesSession ==
    \A i \in 1 .. Len(cb) : ~cb[i].stale

Abs(x) == IF x < 0 THEN -x ELSE x

\* x / y rounded to the nearest integer
Round(x, y) == ((2 * x) + y) \div (2 * y)

PayCells == {i \in Offs : writer.bytes[i][1] = "pay"}

AllSizes(e) == SeqSum(e.tracks, SumSizes)

\* C7: in a session without sink failure the sample table matches the sink: the payload
\* of the N appended samples lies in submission order at strictly increasing,
\* non-overlapping offsets; the sizes sum to the payload cells of the media-data region;
\* each track's durations sum to its running timestamp; and close() on an open session,
\* also one with no samples, finalizes the container around exactly that region.
C7_SampleTableMatchesSink ==
    (proc = "running" /\ ~eng.failed) =>
        /\ \A n \in 1 .. Len(eng.tracks) :
               LET t == eng.tracks[n]
               IN /\ SumDurations(t) = t.ts
                  /\ \A j \in 1 .. Len(t.samples) :
                         /\ t.samples[j].offset >= 1
                         /\ \A i \in Cells(t.samples[j]) :
                                writer.bytes[i] = Pay(t.samples[j].id)
                         /\ j > 1 => /\ t.samples[j - 1].offset + t.samples[j - 1].size
                                           <= t.samples[j].offset
                                     /\ t.samples[j - 1].id < t.samples[j].id
        /\ Cardinality(PayCells) = AllSizes(eng)
        /\ {writer.bytes[i][2] : i \in PayCells} = 1 .. Appended(eng)
        /\ (last.op = "close" /\ last.muxer = "open") =>
               /\ Len(eng.final) = 1
               /\ eng.final[1].tracks = eng.tracks
               /\ eng.final[1].mdat_end = 1 + AllSizes(eng)
               /\ PayCells = 1 .. (eng.final[1].mdat_end - 1)
               /\ writer.bytes[0] = Patch
               /\ writer.bytes[eng.final[1].mdat_end] = Moov

\* init_video, two samples, close
C7_Witness ==
    /\ proc = "running" /\ ~eng.failed
    /\ last.op = "close" /\ last.muxer = "open"
    /\ Len(eng.final) = 1 /\ Len(eng.tracks) = 1
    /\ Len(eng.tracks[1].samples) = 2
    /\ eng.tracks[1].samples[2].offset > eng.tracks[1].samples[1].offset

\* C9: a write the engine issues as (offset o, buffer b) changes no sink cell outside
\* [o, o + len(b)), puts b there when it is reported as accepted, and does so wherever the
\* sink's cursor was left; in close() the size patch lies outside every sample's cells and
\* the write after it lands at the output cursor the session had before the patch.
C9_WriteTouchesOnlyItsRange ==
    /\ \A i \in 1 .. Len(cb) :
           LET c == cb[i]
               n == Len(c.buf)
           IN (~c.stale /\ ~c.seek) =>
                  /\ \A x \in Offs :
                         (x < c.off \/ x >= c.off + n)
                             => c.after.bytes[x] = c.before.bytes[x]
                  /\ \A x \in c.off .. (c.off + n - 1) :
                         c.after.bytes[x] \in {c.before.bytes[x], c.buf[(x - c.off) + 1]}
                  /\ c.status = 0 =>
                         \A x \in c.off .. (c.off + n - 1) :
                             c.after.bytes[x] = c.buf[(x - c.off) + 1]
    /\ (last.op = "close" /\ last.muxer = "open" /\ Len(cb) = 2 /\ proc = "running") =>
           /\ cb[1].off = 0
           /\ \A n \in 1 .. Len(eng.tracks) : \A j \in 1 .. Len(eng.tracks[n].samples) :
                  0 \notin Cells(eng.tracks[n].samples[j])
           /\ cb[2].off = 1 + AllSizes(eng)
           /\ cb[2].status = 0 => writer.bytes[1 + AllSizes(eng)] = Moov

\* close() after a sample: the patch left the sink's cursor at 1, the sample tables were
\* written past the payload
C9_Witness ==
    /\ last.op = "close" /\ last.muxer = "open" /\ proc = "running"
    /\ Len(cb) = 2 /\ cb[2].status = 0
    /\ cb[2].before.pos = 1 /\ cb[2].off > 1
====
